---- MODULE Spec2Model ----
(***************************************************************************)
(* Model of crates/flox-rust-sdk/src/models/project/mod.rs: the guard /    *)
(* init_project upgrade path of a git root into a Project, the read-only   *)
(* operations of a Project, and the sandboxed transaction protocol         *)
(* (enter_transaction, create_default_env, commit_transaction).            *)
(*                                                                         *)
(* A working tree is a function from a finite universe of relative paths   *)
(* to an entry: "none" (absent), "dir", or the content of a file.          *)
(***************************************************************************)
EXTENDS Naturals, Sequences, FiniteSets, TLC

(***************************************************************************)
(* Bounds of the model.                                                    *)
(***************************************************************************)
\* number of file operations inside a sandbox, Index insertions and
\* init_flox_package calls the caller makes in one run
MaxOps == 2

(***************************************************************************)
(* Paths.  ROOT is the empty relative path (the project root itself).      *)
(***************************************************************************)
ROOT == ""
FLAKE == "flake.nix"
FLOX == "flox.nix"
PKGS == "pkgs"
OLD_PACKAGE == "pkgs/default.nix"
PACKAGE_NAME_PLACEHOLDER == "pkgs/__PACKAGE_NAME__"
NAMED == "pkgs/hello"
NAMED_NIX == "pkgs/hello/default.nix"

Paths == {FLAKE, FLOX, PKGS, OLD_PACKAGE, PACKAGE_NAME_PLACEHOLDER, NAMED, NAMED_NIX}

\* Path::parent() of each relative path
Parent(p) ==
    CASE p \in {OLD_PACKAGE, PACKAGE_NAME_PLACEHOLDER, NAMED} -> PKGS
      [] p = NAMED_NIX -> NAMED
      [] OTHER -> ROOT

\* the iteration order of BTreeMap<PathBuf, _>: PathBuf's Ord compares
\* component by component, bytewise
PathOrder ==
    <<FLAKE, FLOX, PKGS, PACKAGE_NAME_PLACEHOLDER, OLD_PACKAGE, NAMED, NAMED_NIX>>

AncestorTable ==
    [p \in Paths \cup {ROOT} |->
        {a \in Paths : a = Parent(p) \/ a = Parent(Parent(p))}]

\* proper ancestors of p below the root
Ancestors(p) == AncestorTable[p]

DescendantTable ==
    [p \in Paths \cup {ROOT} |-> {q \in Paths : p \in AncestorTable[q]}]

\* the paths strictly below p
Descendants(p) == DescendantTable[p]

SelfAndDescendants(p) == {p} \cup Descendants(p)

(***************************************************************************)
(* File contents.                                                          *)
(***************************************************************************)
\* a file that was in the working tree before the program ran
OLD_CONTENT == "old"
\* include_str!("./flox.nix.in")
FLOX_NIX_IN == "flox.nix.in"
\* a file as expanded from a template by `nix flake init`
TEMPLATE_CONTENT == "template"
\* a template file after the package name was substituted
NAMED_CONTENT == "template:hello"
\* a file written by the caller inside the sandbox
USER_CONTENT == "user"

Contents == {OLD_CONTENT, FLOX_NIX_IN, TEMPLATE_CONTENT, NAMED_CONTENT, USER_CONTENT}

NONE == "none"
DIR == "dir"

EmptyTree == [p \in Paths |-> NONE]

\* the entry at p; the root itself is a directory
Entry(t, p) == IF p = ROOT THEN DIR ELSE t[p]

Exists(t, p) == Entry(t, p) # NONE
IsDir(t, p) == Entry(t, p) = DIR
IsFile(t, p) == Entry(t, p) \notin {NONE, DIR}

\* PNAME_DECLARATION.replace / find_and_replace of the placeholder by the name
ReplaceName(c) == IF c = TEMPLATE_CONTENT THEN NAMED_CONTENT ELSE c

(***************************************************************************)
(* Filesystem primitives (std / tokio::fs) on a tree.                      *)
(***************************************************************************)
\* tokio::fs::create_dir_all(d)
CanCreateDirAll(t, d) ==
    \A a \in (Ancestors(d) \cup {d}) \ {ROOT} : t[a] \in {NONE, DIR}

CreateDirAll(t, d) ==
    [q \in Paths |-> IF q \in (Ancestors(d) \cup {d}) THEN DIR ELSE t[q]]

\* tokio::fs::write(p, c): creates or truncates a file in an existing directory
CanWrite(t, p) == IsDir(t, Parent(p)) /\ t[p] # DIR

WriteFile(t, p, c) == [t EXCEPT ![p] = c]

\* tokio::fs::remove_file(p)
CanRemoveFile(t, p) == IsFile(t, p)

RemoveFile(t, p) == [t EXCEPT ![p] = NONE]

\* tokio::fs::remove_dir_all(p)
CanRemoveDirAll(t, p) == IsDir(t, p)

RemoveDirAll(t, p) ==
    [q \in Paths |-> IF q \in SelfAndDescendants(p) THEN NONE ELSE t[q]]

\* tokio::fs::rename(src/p, dst/p) between two trees: a file replaces a file,
\* a directory replaces only an empty directory
CanRename(src, dst, p) ==
    /\ src[p] # NONE
    /\ IsDir(dst, Parent(p))
    /\ IsFile(src, p) => dst[p] # DIR
    /\ IsDir(src, p) =>
          /\ dst[p] \in {NONE, DIR}
          /\ \A q \in Descendants(p) : dst[q] = NONE

\* a rename of the whole source tree instead of the entry
RenamedIntoWholeTree(src, dst, p) == src

RenamedInto(src, dst, p) ==
    [q \in Paths |-> IF q \in SelfAndDescendants(p) THEN src[q] ELSE dst[q]]

\* a copy: the source keeps the entry
RenamedFromKept(src, p) == src

RenamedFrom(src, p) ==
    [q \in Paths |-> IF q \in SelfAndDescendants(p) THEN NONE ELSE src[q]]

(***************************************************************************)
(* The repository collaborator (GitProvider) on a working tree t and the   *)
(* set s of paths staged in its index.                                     *)
(***************************************************************************)
\* add(&[p]): the pathspec must match a file of the tree or of the index
CanGitAdd(t, s, p) == Exists(t, p) \/ (SelfAndDescendants(p) \cap s) # {}

GitAdd(t, s, p) ==
    (s \ SelfAndDescendants(p)) \cup {q \in SelfAndDescendants(p) : IsFile(t, q)}

\* rm(&[p], recursive, force, cached): removes p from the tree and the index;
\* a directory is removed only with the recursive flag
CanGitRm(t, p, recursive) == t[p] # NONE /\ (IsDir(t, p) => recursive)

GitRmTree(t, p) ==
    [q \in Paths |-> IF q \in SelfAndDescendants(p) THEN NONE ELSE t[q]]

GitRmStaged(s, p) == s \ SelfAndDescendants(p)

\* mv(from, to) of an entry without modelled children
CanGitMv(t, from, to) ==
    /\ t[from] # NONE
    /\ t[to] = NONE
    /\ IsDir(t, Parent(to))
    /\ Descendants(from) = {}

GitMvTree(t, from, to) == [t EXCEPT ![to] = t[from], ![from] = NONE]

GitMvStaged(s, from, to) ==
    IF from \in s THEN (s \ {from}) \cup {to} ELSE s

(***************************************************************************)
(* The evaluator collaborator (runix FlakeInit / Eval).                    *)
(***************************************************************************)
INIT_TEMPLATE == "flox#templates._init"
PROJECT_TEMPLATE == "flake:flox#.\"templates\".\"project\""
LEGACY_PACKAGE_TEMPLATE == "flox#templates.legacy-package"
PACKAGE_TEMPLATE == "flox#templates.package"

PackageTemplates == {PROJECT_TEMPLATE, LEGACY_PACKAGE_TEMPLATE, PACKAGE_TEMPLATE}

\* the files a template expands to
TemplateFiles(tpl) ==
    CASE tpl = INIT_TEMPLATE ->
            [p \in Paths |-> IF p = FLAKE THEN TEMPLATE_CONTENT ELSE NONE]
      [] tpl = PROJECT_TEMPLATE ->
            [p \in Paths |-> IF p = FLOX THEN TEMPLATE_CONTENT ELSE NONE]
      [] tpl = LEGACY_PACKAGE_TEMPLATE ->
            [p \in Paths |-> CASE p = PKGS -> DIR
                               [] p = OLD_PACKAGE -> TEMPLATE_CONTENT
                               [] OTHER -> NONE]
      [] OTHER ->
            [p \in Paths |-> CASE p = PKGS -> DIR
                               [] p = PACKAGE_NAME_PLACEHOLDER -> TEMPLATE_CONTENT
                               [] OTHER -> NONE]

\* `nix flake init` refuses to overwrite a file that differs from the template
CanFlakeInit(t, tpl) ==
    \A p \in Paths :
        TemplateFiles(tpl)[p] # NONE => t[p] \in {NONE, TemplateFiles(tpl)[p]}

FlakeInitTree(t, tpl) ==
    [p \in Paths |-> IF TemplateFiles(tpl)[p] # NONE THEN TemplateFiles(tpl)[p] ELSE t[p]]

\* Eval of the flake's floxEnvs: a flake in a git working tree is evaluated
\* from its tracked files
CanEval(t, s) == IsFile(t, FLAKE) /\ FLAKE \in s

EnvNames(t, s) == IF IsFile(t, FLOX) /\ FLOX \in s THEN {"default"} ELSE {}

(***************************************************************************)
(* State.                                                                  *)
(***************************************************************************)
VARIABLES
    bare,       \* the repository has no working directory (workdir() is None)
    orig,       \* the original working tree
    staged,     \* the paths staged in the original repository
    mode,       \* the value the caller holds: which type it has
    sbExists,   \* the transaction's temporary directory exists on disk
    sandbox,    \* the tree inside the temporary directory
    sbStaged,   \* the paths staged in the sandbox's repository
    index,      \* the Index of the running transaction
    entered,    \* orig and staged as they were when enter_transaction was called
    lastOp,     \* the last operation and what it returned
    trip,       \* how far the run is through enter_transaction,
                \* create_default_env, commit_transaction in a row
    ops,        \* number of file operations, Index insertions and
                \* init_flox_package calls of the caller so far
    subdir,     \* the subdir field of the Project held, if one is held
    history,    \* the original repository's commits (their messages, oldest
                \* first) and how many of them were pushed
    other,      \* a second Project opened on the same original root: its
                \* access mode, its sandbox and Index, and its last operation
    actor       \* which of the two Projects made the last step

vars == <<bare, orig, staged, mode, sbExists, sandbox, sbStaged, index,
          entered, lastOp, trip, ops, subdir, history, other, actor>>

\* the types of the value held
Modes == {"Closed", "Initialized", "Uninitialized", "ReadOnly", "Sandboxed", "Gone"}

ADD == "Add"
DELETE == "Delete"
NO_ENTRY == "-"

\* Index::default()
EmptyIndex == [p \in Paths |-> NO_ENTRY]

\* no Project is held
NO_SUBDIR == "-"

\* the types of value that are, or wrap, a Project
Held(m) == m \in {"Initialized", "ReadOnly", "Sandboxed"}

\* no second Project is open
NoOther ==
    [mode |-> "None", sandbox |-> EmptyTree, staged |-> {}, index |-> EmptyIndex,
     last |-> "-", outcome |-> "-", log |-> <<>>, overlap |-> FALSE]

\* a repository without commits
NoHistory == [commits |-> <<>>, pushed |-> 0]

NoSnapshot == [tree |-> EmptyTree, staged |-> {}, taken |-> FALSE,
               history |-> NoHistory]

\* what an operation returned, with what it did on the way: the collaborator
\* calls of init_project (scaffold, add), the Environments a query returned
\* (envs) and the access mode of the Project each embeds (envAccess), the
\* entry an insertion put into the Index and the action it replaced (ins:
\* path, action, what BTreeMap::insert returns), the steps
\* commit_transaction completed, in order (log), and the paths at which the
\* sandbox differed from the original without an Index entry when
\* commit_transaction was called (lost), and the message commit_transaction
\* was given (message)
Op(name, from, outcome, detail) ==
    [op |-> name, from |-> from, outcome |-> outcome, detail |-> detail,
     scaffold |-> FALSE, add |-> FALSE, envs |-> {}, envAccess |-> "-",
     ins |-> <<>>, log |-> <<>>, lost |-> {}, message |-> "-"]

\* the progress of a round trip after the operation o: queries do not
\* interrupt it, every other operation does
Trip(o) ==
    CASE o.op = "enter_transaction" /\ o.outcome = "Ok" -> "entered"
      [] o.op = "create_default_env" /\ o.outcome = "Ok" /\ trip = "entered" ->
            "env_created"
      [] o.op = "commit_transaction" /\ o.outcome = "Ok" /\ trip = "env_created" ->
            "committed"
      [] o.op \in {"environment", "environments"} /\ o.outcome # "panic" -> trip
      [] OTHER -> "-"

\* the working trees a run starts from: a git working tree that is empty,
\* or one that holds a staged manifest and a staged package
InitTrees ==
    { [tree |-> EmptyTree, staged |-> {}],
      [tree |-> [EmptyTree EXCEPT ![FLAKE] = OLD_CONTENT, ![PKGS] = DIR,
                                  ![OLD_PACKAGE] = OLD_CONTENT],
       staged |-> {FLAKE, OLD_PACKAGE}] }

Init ==
    /\ bare \in BOOLEAN
    /\ \E i \in InitTrees :
          /\ orig = (IF bare THEN EmptyTree ELSE i.tree)
          /\ staged = (IF bare THEN {} ELSE i.staged)
          \* a tree with tracked files has the commit that tracked them
          /\ history = (IF bare \/ i.staged = {} THEN NoHistory
                        ELSE [commits |-> <<"initial">>, pushed |-> 0])
    /\ mode = "Closed"
    /\ sbExists = FALSE
    /\ sandbox = EmptyTree
    /\ sbStaged = {}
    /\ index = EmptyIndex
    /\ entered = NoSnapshot
    /\ lastOp = Op("open", "Gone", "Ok", "Root")
    /\ trip = "-"
    /\ ops = 0
    /\ subdir = NO_SUBDIR
    /\ other = NoOther
    /\ actor = "project"

\* what no operation of the Project changes: whether the repository has a
\* working directory, and what a second Project holds
Fixed == UNCHANGED <<bare, other>>

\* the step is one of the Project's
Acted == actor' = "project"

NoSandboxChange == UNCHANGED <<sbExists, sandbox, sbStaged, index, entered>>

NoCount == UNCHANGED ops

\* no commit is made and nothing is pushed
NoCommit == UNCHANGED history

\* Project::new(.., PathBuf::new()) where a Project is made from a root
SubdirNew == subdir' = IF Held(mode') THEN ROOT ELSE NO_SUBDIR

\* the Project held afterwards, if any, is the one held before
SubdirKept == subdir' = IF Held(mode') THEN subdir ELSE NO_SUBDIR

(***************************************************************************)
(* Root<Closed>::guard                                                     *)
(***************************************************************************)
\* a guard that looks for the wrong file
ManifestPresentWrongFile(t) == Exists(t, FLOX)

\* root.join("flake.nix").exists()
ManifestPresent(t) == Exists(t, FLAKE)

guard ==
    /\ mode = "Closed"
    /\ IF bare
       THEN /\ mode' = "Gone"
            /\ lastOp' = Op("guard", mode, "Err", "WorkdirNotFound")
       ELSE IF ManifestPresent(orig)
       THEN /\ mode' = "Initialized"
            /\ lastOp' = Op("guard", mode, "Ok", "Initialized")
       ELSE /\ mode' = "Uninitialized"
            /\ lastOp' = Op("guard", mode, "Ok", "Uninitialized")
    /\ trip' = Trip(lastOp')
    /\ UNCHANGED <<orig, staged>>
    /\ Fixed /\ NoSandboxChange /\ NoCount
    /\ SubdirNew
    /\ NoCommit
    /\ Acted

\* a sandboxed Project that kept the original repository as its workdir
WorkdirOriginal(m) == "original"

(***************************************************************************)
(* Which tree a Project's workdir() is: self.git.git().workdir().  A       *)
(* sandboxed Project's repository is the one discovered in the temporary   *)
(* directory.                                                              *)
(***************************************************************************)
Workdir(m) == IF m = "Sandboxed" THEN "sandbox" ELSE "original"

WorkTree(m) == IF Workdir(m) = "sandbox" THEN sandbox ELSE orig

WorkStaged(m) == IF Workdir(m) = "sandbox" THEN sbStaged ELSE staged

\* the tree and staging area of the Project's workdir become t and s
SetWork(m, t, s) ==
    IF Workdir(m) = "sandbox"
    THEN sandbox' = t /\ sbStaged' = s /\ UNCHANGED <<orig, staged>>
    ELSE orig' = t /\ staged' = s /\ UNCHANGED <<sandbox, sbStaged>>

\* the TempDir is dropped: its directory is removed, and the caller's Index
\* goes with the transaction
SandboxDropped ==
    /\ sbExists' = FALSE
    /\ sandbox' = EmptyTree
    /\ sbStaged' = {}
    /\ index' = EmptyIndex
    /\ entered' = NoSnapshot

(***************************************************************************)
(* Guard::open: Ok(Project) of an Initialized guard, Err(Root) of an       *)
(* Uninitialized one.                                                      *)
(***************************************************************************)
open ==
    /\ mode \in {"Initialized", "Uninitialized"}
    /\ mode' = (IF mode = "Initialized" THEN "ReadOnly" ELSE "Closed")
    /\ lastOp' = Op("open", mode, IF mode = "Initialized" THEN "Ok" ELSE "Err",
                    IF mode = "Initialized" THEN "Project" ELSE "Root")
    /\ trip' = Trip(lastOp')
    /\ UNCHANGED <<orig, staged>>
    /\ Fixed /\ NoSandboxChange /\ NoCount
    /\ SubdirKept
    /\ NoCommit
    /\ Acted

(***************************************************************************)
(* Guard::init_project                                                     *)
(***************************************************************************)
\* an init_project without the early return
NeedsInitAlways(m) == TRUE

\* `if let Guard::Initialized(i) = self { return Ok(i) }`
NeedsInit(m) == m = "Uninitialized"

init_project ==
    /\ mode \in {"Initialized", "Uninitialized"}
    /\ \E scaffoldOk \in BOOLEAN, addOk \in BOOLEAN :
        IF ~NeedsInit(mode)
        THEN /\ mode' = "ReadOnly"
             /\ lastOp' = Op("init_project", mode, "Ok", "Project")
             /\ UNCHANGED <<orig, staged>>
        ELSE IF bare
        THEN /\ mode' = "Gone"
             /\ lastOp' = Op("init_project", mode, "Err", "WorkdirNotFound")
             /\ UNCHANGED <<orig, staged>>
        ELSE IF ~(scaffoldOk /\ CanFlakeInit(orig, INIT_TEMPLATE))
        THEN /\ mode' = "Gone"
             /\ lastOp' = [Op("init_project", mode, "Err", "NixInitBase")
                             EXCEPT !.scaffold = TRUE]
             /\ UNCHANGED <<orig, staged>>
        ELSE LET t == FlakeInitTree(orig, INIT_TEMPLATE) IN
             IF ~(addOk /\ CanGitAdd(t, staged, FLAKE))
             THEN /\ mode' = "Gone"
                  /\ lastOp' = [Op("init_project", mode, "Err", "GitAdd")
                                  EXCEPT !.scaffold = TRUE, !.add = TRUE]
                  /\ orig' = t
                  /\ UNCHANGED staged
             ELSE /\ mode' = "ReadOnly"
                  /\ lastOp' = [Op("init_project", mode, "Ok", "Project")
                                  EXCEPT !.scaffold = TRUE, !.add = TRUE]
                  /\ orig' = t
                  /\ staged' = GitAdd(t, staged, FLAKE)
    /\ trip' = Trip(lastOp')
    /\ Fixed /\ NoSandboxChange /\ NoCount
    /\ subdir' = (IF mode = "Initialized" THEN subdir
                   ELSE IF mode' = "ReadOnly" THEN ROOT ELSE NO_SUBDIR)
    /\ NoCommit
    /\ Acted

(***************************************************************************)
(* The caller drops the value it holds, and resolves the directory to a    *)
(* closed root again.                                                      *)
(***************************************************************************)
drop ==
    /\ mode \in {"ReadOnly", "Sandboxed"}
    /\ mode' = "Gone"
    /\ lastOp' = Op("drop", mode, "Ok", "-")
    /\ trip' = Trip(lastOp')
    /\ IF mode = "Sandboxed" THEN SandboxDropped ELSE NoSandboxChange
    /\ UNCHANGED <<orig, staged>>
    /\ Fixed /\ NoCount
    /\ SubdirKept
    /\ NoCommit
    /\ Acted

reopen ==
    /\ mode = "Gone"
    /\ mode' = "Closed"
    /\ lastOp' = Op("open", mode, "Ok", "Root")
    /\ trip' = Trip(lastOp')
    /\ UNCHANGED <<orig, staged>>
    /\ Fixed /\ NoSandboxChange /\ NoCount
    /\ SubdirKept
    /\ NoCommit
    /\ Acted

(***************************************************************************)
(* Project<ReadOnly>::enter_transaction                                    *)
(***************************************************************************)
\* an enter_transaction implemented for every access mode
CanEnterTransactionAnyMode == mode \in {"ReadOnly", "Sandboxed"}

\* `impl Project<'flox, Git, ReadOnly<Git>>`
CanEnterTransaction == mode = "ReadOnly"

\* a loop that creates the directories and copies no file
CopyTreeDirsOnly(t) == [p \in Paths |-> IF IsDir(t, p) THEN DIR ELSE NONE]

\* the WalkDir loop: every directory is created and every file copied at
\* the same relative path
CopyTree(t) ==
    [p \in Paths |-> IF IsDir(t, p) THEN DIR
                     ELSE IF IsFile(t, p) THEN t[p] ELSE NONE]

EnterFailures == {"CreateTempdir", "Walkdir", "CopyDir", "CopyFile", "Discover"}

\* a step can only fail if the loop reaches it
EnterCanFail(t, f) ==
    CASE f = "CopyDir" -> \E p \in Paths : IsDir(t, p)
      [] f = "CopyFile" -> \E p \in Paths : IsFile(t, p)
      [] OTHER -> TRUE

\* a loop that ignores the result of copying a file
EnterOutcomeCopyIgnored(f) ==
    CASE f \in {"none", "CopyFile"} -> "Ok"
      [] f = "Discover" -> "panic"
      [] OTHER -> "Err"

\* `?` on the four mapped errors, `.unwrap()` on Git::discover
EnterOutcome(f) ==
    CASE f = "none" -> "Ok"
      [] f = "Discover" -> "panic"
      [] OTHER -> "Err"

\* an error path that keeps the temporary directory (TempDir::into_path)
EnterFailedKeepsTempdir ==
    /\ mode' = "Gone"
    /\ sbExists' = TRUE
    /\ sandbox' = CopyTree(orig)
    /\ sbStaged' = {}
    /\ index' = EmptyIndex
    /\ entered' = NoSnapshot

\* an early return or a panic: nothing is returned, and the local
\* transaction_temp_dir is dropped
EnterFailed ==
    /\ mode' = "Gone"
    /\ SandboxDropped

enter_transaction ==
    /\ CanEnterTransaction
    /\ \E f \in EnterFailures \cup {"none"} :
        /\ EnterCanFail(orig, f)
        /\ lastOp' = Op("enter_transaction", mode, EnterOutcome(f), f)
        /\ IF EnterOutcome(f) = "Ok"
           THEN /\ mode' = "Sandboxed"
                /\ sbExists' = TRUE
                /\ sandbox' = CopyTree(orig)
                /\ sbStaged' = staged
                /\ index' = EmptyIndex
                /\ entered' = [tree |-> orig, staged |-> staged, taken |-> TRUE,
                                history |-> history]
           ELSE EnterFailed
    /\ trip' = Trip(lastOp')
    /\ UNCHANGED <<orig, staged>>
    /\ Fixed /\ NoCount
    \* `subdir: self.subdir`
    /\ subdir' = (IF lastOp'.outcome = "Ok" THEN subdir ELSE NO_SUBDIR)
    /\ NoCommit
    /\ Acted

(***************************************************************************)
(* What the caller does while it holds the sandboxed Project: ordinary     *)
(* file operations below project.workdir(), and Index insertions.          *)
(***************************************************************************)
\* the paths the caller writes, removes and records
WritePaths == {FLAKE, OLD_PACKAGE}
RemovePaths == {FLAKE, PKGS}
InsertPaths == {FLAKE, PKGS, OLD_PACKAGE}

sandbox_write ==
    /\ mode = "Sandboxed"
    /\ ops < MaxOps
    /\ \E p \in WritePaths :
        /\ CanCreateDirAll(WorkTree(mode), Parent(p))
        /\ CanWrite(CreateDirAll(WorkTree(mode), Parent(p)), p)
        /\ SetWork(mode,
                   WriteFile(CreateDirAll(WorkTree(mode), Parent(p)), p, USER_CONTENT),
                   WorkStaged(mode))
    /\ ops' = ops + 1
    /\ lastOp' = Op("sandbox_write", mode, "Ok", "-")
    /\ trip' = Trip(lastOp')
    /\ UNCHANGED <<mode, sbExists, index, entered>>
    /\ Fixed
    /\ SubdirKept
    /\ NoCommit
    /\ Acted

sandbox_remove ==
    /\ mode = "Sandboxed"
    /\ ops < MaxOps
    /\ \E p \in RemovePaths :
        /\ WorkTree(mode)[p] # NONE
        /\ SetWork(mode, RemoveDirAll(WorkTree(mode), p), WorkStaged(mode))
    /\ ops' = ops + 1
    /\ lastOp' = Op("sandbox_remove", mode, "Ok", "-")
    /\ trip' = Trip(lastOp')
    /\ UNCHANGED <<mode, sbExists, index, entered>>
    /\ Fixed
    /\ SubdirKept
    /\ NoCommit
    /\ Acted

\* an insertion that keeps the entry a path already has
IndexInsertKeepFirst(ix, p, a) ==
    IF ix[p] = NO_ENTRY THEN [ix EXCEPT ![p] = a] ELSE ix

\* BTreeMap::insert: a later insertion for the same path replaces the action
IndexInsert(ix, p, a) == [ix EXCEPT ![p] = a]

index_insert ==
    /\ mode = "Sandboxed"
    /\ ops < MaxOps
    /\ \E p \in InsertPaths, a \in {ADD, DELETE} :
        /\ index' = IndexInsert(index, p, a)
        /\ lastOp' = [Op("index_insert", mode, "Ok", "-") EXCEPT !.ins = <<p, a, index[p]>>]
    /\ ops' = ops + 1
    /\ trip' = Trip(lastOp')
    /\ UNCHANGED <<mode, orig, staged, sbExists, sandbox, sbStaged, entered>>
    /\ Fixed
    /\ SubdirKept
    /\ NoCommit
    /\ Acted

(***************************************************************************)
(* Project<GitSandBox>::create_default_env                                 *)
(***************************************************************************)
\* Path::new("flox.nix")
DefaultEnvPath == FLOX

\* index.insert(path, FileAction::Add)
DefaultEnvAction == ADD

create_default_env ==
    /\ mode = "Sandboxed"
    /\ \E writeOk \in BOOLEAN :
        IF writeOk /\ CanWrite(WorkTree(mode), DefaultEnvPath)
        THEN /\ SetWork(mode, WriteFile(WorkTree(mode), DefaultEnvPath, FLOX_NIX_IN),
                        WorkStaged(mode))
             /\ index' = IndexInsert(index, DefaultEnvPath, DefaultEnvAction)
             /\ lastOp' = [Op("create_default_env", mode, "Ok", "-")
                             EXCEPT !.ins = <<DefaultEnvPath, DefaultEnvAction,
                                             index[DefaultEnvPath]>>]
             /\ UNCHANGED <<mode, sbExists, entered>>
        ELSE \* tokio::fs::write(..).await.unwrap()
             /\ mode' = "Gone"
             /\ SandboxDropped
             /\ lastOp' = Op("create_default_env", mode, "panic", "write")
             /\ UNCHANGED <<orig, staged>>
    /\ trip' = Trip(lastOp')
    /\ Fixed /\ NoCount
    /\ SubdirKept
    /\ NoCommit
    /\ Acted

(***************************************************************************)
(* Project<GitSandBox>::commit_transaction                                 *)
(***************************************************************************)
\* an iteration from the greatest key down
IndexKeysReversed(ix) ==
    LET sq == SelectSeq(PathOrder, LAMBDA p : ix[p] # NO_ENTRY)
    IN  [i \in 1..Len(sq) |-> sq[Len(sq) + 1 - i]]

\* `for (file, action) in index`: the keys in BTreeMap order
IndexKeys(ix) == SelectSeq(PathOrder, LAMBDA p : ix[p] # NO_ENTRY)

\* the steps of one entry
StepsOf(a) == IF a = ADD THEN {"create_dir_all", "rename", "add"} ELSE {"rm"}

\* one completed step of commit_transaction on the path p; flag is the
\* recursive flag of a remove
Step(p, step, flag) == [path |-> p, step |-> step, flag |-> flag]

\* an Add that moves the file but does not stage it
ApplyAddUnstaged(st, p, f) ==
    IF f = "create_dir_all" \/ ~CanCreateDirAll(st.orig, Parent(p))
    THEN [st EXCEPT !.outcome = "panic", !.detail = "create_dir_all"]
    ELSE LET o1 == CreateDirAll(st.orig, Parent(p)) IN
         IF f = "rename" \/ ~CanRename(st.sb, o1, p)
         THEN [st EXCEPT !.orig = o1, !.outcome = "panic", !.detail = "rename"]
         ELSE [st EXCEPT !.orig = RenamedInto(st.sb, o1, p),
                         !.sb = RenamedFrom(st.sb, p),
                         !.log = st.log \o <<Step(p, "create_dir_all", FALSE),
                                             Step(p, "rename", FALSE),
                                             Step(p, "add", FALSE)>>]

\* FileAction::Add on the state st = [orig, staged, sb, outcome, detail,
\* log]; f names the step that fails for a reason outside the model, or
\* "none".  Every step is unwrapped: a failing step panics.
ApplyAdd(st, p, f) ==
    IF f = "create_dir_all" \/ ~CanCreateDirAll(st.orig, Parent(p))
    THEN [st EXCEPT !.outcome = "panic", !.detail = "create_dir_all"]
    ELSE LET o1 == CreateDirAll(st.orig, Parent(p))
             l1 == st.log \o <<Step(p, "create_dir_all", FALSE)>>
         IN
         IF f = "rename" \/ ~CanRename(st.sb, o1, p)
         THEN [st EXCEPT !.orig = o1, !.log = l1,
                         !.outcome = "panic", !.detail = "rename"]
         ELSE LET o2 == RenamedInto(st.sb, o1, p)
                  sb2 == RenamedFrom(st.sb, p)
                  l2 == l1 \o <<Step(p, "rename", FALSE)>>
              IN  IF f = "add" \/ ~CanGitAdd(o2, st.staged, p)
                  THEN [st EXCEPT !.orig = o2, !.sb = sb2, !.log = l2,
                                  !.outcome = "panic", !.detail = "add"]
                  ELSE [st EXCEPT !.orig = o2, !.sb = sb2,
                                  !.staged = GitAdd(o2, st.staged, p),
                                  !.log = l2 \o <<Step(p, "add", FALSE)>>]

\* a remove that is always recursive
RecursiveFlagAlways(t, p) == TRUE

\* the recursive flag of a remove: `workdir.join(&file).is_dir()`
RecursiveFlag(t, p) == IsDir(t, p)

\* FileAction::Delete
ApplyDelete(st, p, f) ==
    IF f # "none" \/ ~CanGitRm(st.orig, p, RecursiveFlag(st.orig, p))
    THEN [st EXCEPT !.outcome = "panic", !.detail = "rm"]
    ELSE [st EXCEPT !.orig = GitRmTree(st.orig, p),
                    !.staged = GitRmStaged(st.staged, p),
                    !.log = st.log \o <<Step(p, "rm", RecursiveFlag(st.orig, p))>>]

ApplyEntry(st, p, a, f) ==
    IF a = ADD THEN ApplyAdd(st, p, f) ELSE ApplyDelete(st, p, f)

\* the loop over the Index; entry number failAt fails at step f
RECURSIVE ApplyIndex(_, _, _, _, _, _)
ApplyIndex(ix, keys, i, st, failAt, f) ==
    IF i > Len(keys) \/ st.outcome # "Ok"
    THEN st
    ELSE ApplyIndex(ix, keys, i + 1,
                    ApplyEntry(st, keys[i], ix[keys[i]],
                               IF i = failAt THEN f ELSE "none"),
                    failAt, f)

\* no step fails for an outside reason, or one step of one entry does
CommitFailures(ix) ==
    {<<0, "none">>} \cup
    UNION { {<<i, f>> : f \in StepsOf(ix[IndexKeys(ix)[i]])} :
            i \in 1..Len(IndexKeys(ix)) }

\* the state commit_transaction starts from: the original tree and staging
\* area behind `original`, and the sandbox tree behind self.git
CommitStart(o, s, sb) ==
    [orig |-> o, staged |-> s, sb |-> sb,
     outcome |-> "Ok", detail |-> "Project", log |-> <<>>]

\* a commit that puts the original tree back when a step fails
CommitTreeRolledBack(st, o) == IF st.outcome = "Ok" THEN st.orig ELSE o

\* the original tree commit_transaction leaves, having started from o: what
\* the completed steps made of it, also when a later step panicked
CommitTree(st, o) == st.orig

\* the messages a caller passes
Messages == {"unused", "update"}

\* a commit_transaction that commits what it staged, under the message
CommitHistoryCommitted(h, msg) == [h EXCEPT !.commits = Append(@, msg)]

\* the history commit_transaction leaves: `_message` is not used, and
\* neither commit nor push of the repository is called
CommitHistory(h, msg) == h

\* the paths with no Index entry at which the sandbox differs from the
\* original
Unrecorded(ix, o, sb) == {p \in Paths : ix[p] = NO_ENTRY /\ sb[p] # o[p]}

commit_transaction ==
    /\ mode = "Sandboxed"
    /\ \E fail \in CommitFailures(index) :
        LET failAt == fail[1]
            f == fail[2]
            st == ApplyIndex(index, IndexKeys(index), 1,
                             CommitStart(orig, staged, WorkTree(mode)),
                             failAt, f)
        IN  /\ orig' = CommitTree(st, orig)
            /\ staged' = st.staged
            /\ mode' = (IF st.outcome = "Ok" THEN "ReadOnly" ELSE "Gone")
            /\ \E msg \in Messages :
                /\ lastOp' = [Op("commit_transaction", mode, st.outcome, st.detail)
                                EXCEPT !.log = st.log,
                                       !.lost = Unrecorded(index, orig, WorkTree(mode)),
                                       !.message = msg]
                /\ history' = CommitHistory(history, msg)
    /\ SandboxDropped
    /\ trip' = Trip(lastOp')
    /\ Fixed /\ NoCount
    \* `subdir: self.subdir`
    /\ subdir' = (IF lastOp'.outcome = "Ok" THEN subdir ELSE NO_SUBDIR)
    /\ Acted

(***************************************************************************)
(* Project::init_flox_package (any access mode, &self)                     *)
(***************************************************************************)
\* a file just created by File::create, before write_all
EMPTY_CONTENT == "empty"

\* the failures the environment injects; the other steps fail when the tree
\* makes them fail
PkgInjected == {"none", "NixInit", "GitAdd"}

PkgResult(t, s, outcome, detail) ==
    [tree |-> t, staged |-> s, outcome |-> outcome, detail |-> detail]

\* the `Ok(mut file)` arm: the legacy template layout pkgs/default.nix
LegacyPath(t, s, f) ==
    IF f = "ReadTemplateFile" \/ ~IsFile(t, OLD_PACKAGE)
    THEN PkgResult(t, s, "Err", "ReadTemplateFile")
    ELSE IF f = "MkNamedDir" \/ ~CanCreateDirAll(t, NAMED)
    THEN PkgResult(t, s, "Err", "MkNamedDir")
    ELSE LET t1 == CreateDirAll(t, NAMED) IN
         IF f = "RemoveUnnamedFile" \/ ~CanGitRm(t1, OLD_PACKAGE, FALSE)
         THEN PkgResult(t1, s, "Err", "RemoveUnnamedFile")
         ELSE LET t2 == GitRmTree(t1, OLD_PACKAGE)
                  s2 == GitRmStaged(s, OLD_PACKAGE)
              IN  IF f = "OpenNamed" \/ ~CanWrite(t2, NAMED_NIX)
                  THEN PkgResult(t2, s2, "Err", "OpenNamed")
                  ELSE IF f = "WriteTemplateFile"
                  THEN PkgResult(WriteFile(t2, NAMED_NIX, EMPTY_CONTENT), s2,
                                 "Err", "WriteTemplateFile")
                  ELSE LET t3 == WriteFile(t2, NAMED_NIX, ReplaceName(t[OLD_PACKAGE])) IN
                       IF f = "GitAdd" \/ ~CanGitAdd(t3, s2, NAMED_NIX)
                       THEN PkgResult(t3, s2, "Err", "GitAdd")
                       ELSE PkgResult(t3, GitAdd(t3, s2, NAMED_NIX), "Ok", "-")

\* the `'move_to_pkgs` arm: pkgs/default.nix was not found
MoveToPkgs(t, s, tpl, f) ==
    IF ~Exists(t, PACKAGE_NAME_PLACEHOLDER)
    THEN IF tpl = PROJECT_TEMPLATE
         THEN IF f = "GitAdd" \/ ~CanGitAdd(t, s, FLOX)
              THEN PkgResult(t, s, "Err", "GitAdd")
              ELSE PkgResult(t, GitAdd(t, s, FLOX), "Ok", "-")
         ELSE PkgResult(t, s, "Ok", "-")
    ELSE IF f = "GitMv" \/ ~CanGitMv(t, PACKAGE_NAME_PLACEHOLDER, NAMED)
    THEN PkgResult(t, s, "Err", "GitMv")
    ELSE LET t1 == GitMvTree(t, PACKAGE_NAME_PLACEHOLDER, NAMED)
             s1 == GitMvStaged(s, PACKAGE_NAME_PLACEHOLDER, NAMED)
         IN  IF f = "ReplacePackageName"
             THEN PkgResult(t1, s1, "Err", "ReplacePackageName")
             ELSE LET t2 == [t1 EXCEPT ![NAMED] = ReplaceName(t1[NAMED])] IN
                  IF f = "GitAdd" \/ ~CanGitAdd(t2, s1, NAMED)
                  THEN PkgResult(t2, s1, "Err", "GitAdd")
                  ELSE PkgResult(t2, GitAdd(t2, s1, NAMED), "Ok", "-")

\* the whole function on the tree t and staging area s of its workdir
InitFloxPackage(t, s, tpl, f) ==
    IF f = "NixInit" \/ ~CanFlakeInit(t, tpl)
    THEN PkgResult(t, s, "Err", "NixInit")
    ELSE LET t1 == FlakeInitTree(t, tpl) IN
         IF f = "OpenTemplateFile"
         THEN PkgResult(t1, s, "Err", "OpenTemplateFile")
         ELSE IF Exists(t1, OLD_PACKAGE)
         THEN LegacyPath(t1, s, f)
         ELSE MoveToPkgs(t1, s, tpl, f)

init_flox_package ==
    /\ mode \in {"ReadOnly", "Sandboxed"}
    /\ ops < MaxOps
    /\ \E tpl \in PackageTemplates, f \in PkgInjected :
        LET r == InitFloxPackage(WorkTree(mode), WorkStaged(mode), tpl, f) IN
        /\ SetWork(mode, r.tree, r.staged)
        /\ lastOp' = Op("init_flox_package", mode, r.outcome, r.detail)
    /\ ops' = ops + 1
    /\ trip' = Trip(lastOp')
    /\ UNCHANGED <<mode, sbExists, index, entered>>
    /\ Fixed
    /\ SubdirKept
    /\ NoCommit
    /\ Acted

(***************************************************************************)
(* Project::cleanup_flox (any access mode, consumes self).  Its two paths  *)
(* are relative to the process's current directory.                        *)
(***************************************************************************)
CleanupFlox(t, f) ==
    IF f = "RemovePkgs" \/ ~CanRemoveDirAll(t, PKGS)
    THEN [tree |-> t, outcome |-> "Err", detail |-> "RemovePkgs"]
    ELSE LET t1 == RemoveDirAll(t, PKGS) IN
         IF f = "RemoveFlake" \/ ~CanRemoveFile(t1, FLAKE)
         THEN [tree |-> t1, outcome |-> "Err", detail |-> "RemoveFlake"]
         ELSE [tree |-> RemoveFile(t1, FLAKE), outcome |-> "Ok", detail |-> "-"]

cleanup_flox ==
    /\ mode \in {"ReadOnly", "Sandboxed"}
    /\ \E c \in ({"root"} \X {"none", "RemovePkgs", "RemoveFlake"})
                    \cup {<<"elsewhere", "none">>} :
        LET cwd == c[1]
            f == c[2]
        IN
        IF cwd = "root"
        THEN LET r == CleanupFlox(orig, f) IN
             /\ orig' = r.tree
             /\ lastOp' = Op("cleanup_flox", mode, r.outcome, r.detail)
        ELSE \* the current directory holds no pkgs directory of this project
             /\ orig' = orig
             /\ lastOp' = Op("cleanup_flox", mode, "Err", "RemovePkgs")
    /\ mode' = "Gone"
    /\ IF mode = "Sandboxed" THEN SandboxDropped ELSE NoSandboxChange
    /\ trip' = Trip(lastOp')
    /\ UNCHANGED staged
    /\ Fixed /\ NoCount
    /\ SubdirKept
    /\ NoCommit
    /\ Acted

(***************************************************************************)
(* Project::environment and Project::environments (any access mode, &self) *)
(***************************************************************************)
\* the name asked for
EnvQueryNames == {"default"}

\* an Environment that embeds a Project of the access mode it was asked on
EnvironmentAccessSame(m) == m

\* `Project::new(self.flox, self.git.read_only(), self.subdir.clone())`:
\* the access mode of the Project embedded in a returned Environment
EnvironmentAccess(m) == "ReadOnly"

\* the repository self.git.read_only() gives access to: the original one,
\* also for the GitSandBox of a transaction (commit_transaction takes its
\* `original` from the same call)
EnvironmentRepo(m) == "original"

\* the values that hold access to the original repository: the Project held
\* (a Sandboxed one keeps the original's access for the commit), and the
\* Project in each Environment the last query returned
OriginalHolders ==
    (IF Held(mode) THEN {<<"project", mode>>} ELSE {}) \cup
    {<<"environment", n>> : n \in
        IF EnvironmentRepo(lastOp.from) = "original" THEN lastOp.envs ELSE {}}

environment ==
    /\ mode \in {"ReadOnly", "Sandboxed"}
    /\ \E name \in EnvQueryNames, evalOk \in BOOLEAN :
        IF evalOk /\ CanEval(WorkTree(mode), WorkStaged(mode))
        THEN /\ lastOp' =
                  IF name \in EnvNames(WorkTree(mode), WorkStaged(mode))
                  THEN [Op("environment", mode, "Ok", name)
                          EXCEPT !.envs = {name},
                                 !.envAccess = EnvironmentAccess(mode)]
                  ELSE Op("environment", mode, "Err", name)
             /\ UNCHANGED mode
             /\ NoSandboxChange
        ELSE \* eval.run_json(..).await.unwrap()
             /\ lastOp' = Op("environment", mode, "panic", "eval")
             /\ mode' = "Gone"
             /\ IF mode = "Sandboxed" THEN SandboxDropped ELSE NoSandboxChange
    /\ trip' = Trip(lastOp')
    /\ UNCHANGED <<orig, staged>>
    /\ Fixed /\ NoCount
    /\ SubdirKept
    /\ NoCommit
    /\ Acted

environments ==
    /\ mode \in {"ReadOnly", "Sandboxed"}
    /\ \E evalOk \in BOOLEAN :
        IF evalOk /\ CanEval(WorkTree(mode), WorkStaged(mode))
        THEN /\ lastOp' = [Op("environments", mode, "Ok", "-")
                             EXCEPT !.envs = EnvNames(WorkTree(mode), WorkStaged(mode)),
                                    !.envAccess = EnvironmentAccess(mode)]
             /\ UNCHANGED mode
             /\ NoSandboxChange
        ELSE \* eval.run_json(..).await.unwrap()
             /\ lastOp' = Op("environments", mode, "panic", "eval")
             /\ mode' = "Gone"
             /\ IF mode = "Sandboxed" THEN SandboxDropped ELSE NoSandboxChange
    /\ trip' = Trip(lastOp')
    /\ UNCHANGED <<orig, staged>>
    /\ Fixed /\ NoCount
    /\ SubdirKept
    /\ NoCommit
    /\ Acted

(***************************************************************************)
(* The specification.                                                      *)
(***************************************************************************)
Next ==
    \/ guard
    \/ open
    \/ init_project
    \/ drop
    \/ reopen
    \/ enter_transaction
    \/ sandbox_write
    \/ sandbox_remove
    \/ index_insert
    \/ create_default_env
    \/ commit_transaction
    \/ init_flox_package
    \/ cleanup_flox
    \/ environment
    \/ environments

Spec == Init /\ [][Next]_vars

(***************************************************************************)
(* Two Projects on one working tree.  A second Project (a second           *)
(* flox.resource(dir).guard().open() on the same directory) runs the same  *)
(* enter_transaction and commit_transaction on the same original root; its *)
(* sandbox is another temporary directory.                                 *)
(***************************************************************************)
\* the content the second Project's caller writes
OTHER_CONTENT == "other"

\* the paths the second Project's caller writes and records, and the
\* actions it records them with
OtherWritePaths == {FLOX, OLD_PACKAGE}
OtherInsertPaths == {FLOX, PKGS}
OtherActions == {ADD}

\* the tree of an initialized root: a manifest and a package, committed
InitializedTrees ==
    { [tree |-> [EmptyTree EXCEPT ![FLAKE] = OLD_CONTENT, ![PKGS] = DIR,
                                  ![OLD_PACKAGE] = OLD_CONTENT],
       staged |-> {FLAKE, OLD_PACKAGE},
       history |-> [commits |-> <<"initial">>, pushed |-> 0]] }

\* both Projects were opened on the initialized root
InitTwo ==
    /\ bare = FALSE
    /\ \E i \in InitializedTrees :
          orig = i.tree /\ staged = i.staged /\ history = i.history
    /\ mode = "ReadOnly"
    /\ sbExists = FALSE
    /\ sandbox = EmptyTree
    /\ sbStaged = {}
    /\ index = EmptyIndex
    /\ entered = NoSnapshot
    /\ lastOp = Op("open", "Initialized", "Ok", "Project")
    /\ trip = "-"
    /\ ops = 0
    /\ subdir = ROOT
    /\ other = [NoOther EXCEPT !.mode = "ReadOnly"]
    /\ actor = "project"

\* what a step of the second Project leaves alone: the first Project, its
\* sandbox and its Index
OtherActed ==
    /\ actor' = "other"
    /\ UNCHANGED <<bare, mode, sbExists, sandbox, sbStaged, index, entered,
                   lastOp, trip, subdir>>

\* enter_transaction of the second Project
other_enter ==
    /\ other.mode = "ReadOnly"
    /\ \E f \in EnterFailures \cup {"none"} :
        /\ EnterCanFail(orig, f)
        /\ other' =
              IF EnterOutcome(f) = "Ok"
              THEN [other EXCEPT !.mode = "Sandboxed",
                                 !.sandbox = CopyTree(orig),
                                 !.staged = staged,
                                 !.index = EmptyIndex,
                                 !.last = "enter", !.outcome = "Ok",
                                 !.log = <<>>,
                                 !.overlap = (mode = "Sandboxed")]
              ELSE [NoOther EXCEPT !.mode = "Gone", !.last = "enter",
                                   !.outcome = EnterOutcome(f)]
    /\ UNCHANGED <<orig, staged, history, ops>>
    /\ OtherActed

\* a file written below the second Project's workdir
other_write ==
    /\ other.mode = "Sandboxed"
    /\ ops < MaxOps
    /\ \E p \in OtherWritePaths :
        /\ CanCreateDirAll(other.sandbox, Parent(p))
        /\ CanWrite(CreateDirAll(other.sandbox, Parent(p)), p)
        /\ other' = [other EXCEPT
              !.sandbox = WriteFile(CreateDirAll(other.sandbox, Parent(p)), p,
                                    OTHER_CONTENT),
              !.last = "write"]
    /\ ops' = ops + 1
    /\ UNCHANGED <<orig, staged, history>>
    /\ OtherActed

\* an insertion into the second Project's Index
other_insert ==
    /\ other.mode = "Sandboxed"
    /\ ops < MaxOps
    /\ \E p \in OtherInsertPaths, a \in OtherActions :
        other' = [other EXCEPT !.index = IndexInsert(other.index, p, a),
                               !.last = "insert"]
    /\ ops' = ops + 1
    /\ UNCHANGED <<orig, staged, history>>
    /\ OtherActed

\* commit_transaction of the second Project
other_commit ==
    /\ other.mode = "Sandboxed"
    /\ \E fail \in CommitFailures(other.index), msg \in Messages :
        LET st == ApplyIndex(other.index, IndexKeys(other.index), 1,
                             CommitStart(orig, staged, other.sandbox),
                             fail[1], fail[2])
        IN  /\ orig' = CommitTree(st, orig)
            /\ staged' = st.staged
            /\ history' = CommitHistory(history, msg)
            /\ other' = [NoOther EXCEPT
                  !.mode = (IF st.outcome = "Ok" THEN "ReadOnly" ELSE "Gone"),
                  !.last = "commit", !.outcome = st.outcome, !.log = st.log,
                  !.overlap = other.overlap]
    /\ UNCHANGED ops
    /\ OtherActed

NextTwo ==
    \/ enter_transaction
    \/ sandbox_write
    \/ index_insert
    \/ create_default_env
    \/ commit_transaction
    \/ other_enter
    \/ other_write
    \/ other_insert
    \/ other_commit

SpecTwo == InitTwo /\ [][NextTwo]_vars

\* every tree is well formed: what exists lies in a directory
TypeOK ==
    /\ mode \in Modes
    /\ \A p \in Paths : Exists(orig, p) => IsDir(orig, Parent(p))
    /\ \A p \in Paths : Exists(sandbox, p) => IsDir(sandbox, Parent(p))
    /\ staged \subseteq Paths
    /\ ops <= MaxOps
    /\ subdir = (IF Held(mode) THEN ROOT ELSE NO_SUBDIR)

(***************************************************************************)
(* Properties.                                                             *)
(***************************************************************************)

\* C1 - Sandbox isolation: while the sandboxed Project of a transaction
\* exists (after enter_transaction, before commit_transaction), the original
\* working tree and its staging area are exactly what they were when
\* enter_transaction was called, whatever was written or removed through
\* the sandboxed Project and whatever was inserted into the Index.
C1_SandboxIsolation ==
    mode = "Sandboxed" =>
        /\ entered.taken
        /\ orig = entered.tree
        /\ staged = entered.staged

\* a sandbox that holds the default environment and lost the manifest, with
\* both recorded in the Index, over an original tree that shows neither
C1_Witness ==
    /\ mode = "Sandboxed"
    /\ sandbox[FLOX] = FLOX_NIX_IN /\ orig[FLOX] = NONE
    /\ sandbox[FLAKE] = NONE /\ orig[FLAKE] # NONE
    /\ index[FLOX] = ADD /\ index[FLAKE] = DELETE

\* C2 - The access mode changes only ReadOnly --enter_transaction-->
\* Sandboxed and Sandboxed --commit_transaction--> ReadOnly:
\* enter_transaction runs only on a ReadOnly Project and commit_transaction
\* only on a Sandboxed one, and each consumes the value it is called on (no
\* ReadOnly Project is left after enter_transaction, no Sandboxed Project
\* and no sandbox after commit_transaction).
C2_ModeTransitions ==
    [][ /\ (mode' = "Sandboxed" /\ mode # "Sandboxed") =>
              (mode = "ReadOnly" /\ lastOp'.op = "enter_transaction")
        /\ (mode = "Sandboxed" /\ mode' = "ReadOnly") =>
              lastOp'.op = "commit_transaction"
        /\ lastOp'.op = "enter_transaction" =>
              (mode = "ReadOnly" /\ mode' \in {"Sandboxed", "Gone"})
        /\ lastOp'.op = "commit_transaction" =>
              (mode = "Sandboxed" /\ mode' \in {"ReadOnly", "Gone"} /\ ~sbExists')
      ]_vars

\* a transaction was entered and committed
C2_Witness ==
    /\ lastOp.op = "commit_transaction"
    /\ lastOp.from = "Sandboxed"
    /\ mode = "ReadOnly"

\* C3 - When enter_transaction fails at any step (temp-directory creation,
\* walk, directory creation, file copy, repository discovery), the original
\* working tree and its staging area are unchanged, and neither a Sandboxed
\* Project nor an Index nor a sandbox directory is left.
C3_EnterFailureLeavesOriginal ==
    [][ (lastOp'.op = "enter_transaction" /\ lastOp'.detail \in EnterFailures) =>
            /\ orig' = orig
            /\ staged' = staged
            /\ lastOp'.outcome \in {"Err", "panic"}
            /\ mode' = "Gone"
            /\ ~sbExists'
            /\ index' = EmptyIndex
      ]_vars

\* enter_transaction failed while copying a file of a non-empty tree
C3_Witness ==
    /\ lastOp.op = "enter_transaction"
    /\ lastOp.detail = "CopyFile"
    /\ lastOp.outcome = "Err"
    /\ orig[FLAKE] # NONE

\* C4 - guard() on a closed handle of a repository with a working directory
\* returns Initialized exactly when flake.nix exists at the root and
\* Uninitialized otherwise, and changes neither the working tree nor the
\* staging area (so repeating it on an unchanged root repeats the answer).
C4_GuardIsPureCheck ==
    [][ (lastOp'.op = "guard" /\ ~bare) =>
            /\ orig' = orig
            /\ staged' = staged
            /\ lastOp'.outcome = "Ok"
            /\ Exists(orig, FLAKE) => mode' = "Initialized"
            /\ ~Exists(orig, FLAKE) => mode' = "Uninitialized"
      ]_vars

\* guard answered Uninitialized for a root without a manifest
C4_Witness ==
    /\ lastOp.op = "guard"
    /\ mode = "Uninitialized"
    /\ lastOp.detail = "Uninitialized"
    /\ orig[FLAKE] = NONE

\* C5 - Initialization is idempotent: a successful init_project leaves a
\* manifest at the root, guard() on a root with a manifest returns
\* Initialized, and init_project on an Initialized guard returns the
\* Project without running the scaffold or the add operation.
C5_InitIdempotent ==
    /\ (lastOp.op = "init_project" /\ lastOp.outcome = "Ok") =>
          (mode = "ReadOnly" /\ Exists(orig, FLAKE))
    /\ (lastOp.op = "guard" /\ ~bare /\ Exists(orig, FLAKE)) =>
          mode = "Initialized"
    /\ (lastOp.op = "init_project" /\ lastOp.from = "Initialized") =>
          /\ lastOp.outcome = "Ok"
          /\ ~lastOp.scaffold
          /\ ~lastOp.add
          /\ mode = "ReadOnly"

\* init_project on an Initialized guard of a root that an earlier
\* init_project scaffolded and staged
C5_Witness ==
    /\ lastOp.op = "init_project"
    /\ lastOp.from = "Initialized"
    /\ orig[FLAKE] = TEMPLATE_CONTENT
    /\ FLAKE \in staged

\* C6 - A failure of guard or init_project leaves the directory either
\* without a manifest or with a manifest that is staged; no state with a
\* manifest written but not staged is left.
C6_InitFailureLeavesNoPartialState ==
    (lastOp.op \in {"guard", "init_project"} /\ lastOp.outcome = "Err") =>
        \/ ~Exists(orig, FLAKE)
        \/ (Exists(orig, FLAKE) /\ FLAKE \in staged)

\* C7 - Round trip: after enter_transaction, create_default_env and a
\* commit_transaction that returns, the Project is ReadOnly, flox.nix at
\* the original root has the built-in default content and is staged, the
\* evaluator sees the environment "default", and environment("default")
\* returns it.
C7_RoundTrip ==
    trip = "committed" =>
        /\ mode = "ReadOnly"
        /\ orig[FLOX] = FLOX_NIX_IN
        /\ FLOX \in staged
        /\ "default" \in EnvNames(orig, staged)
        /\ lastOp.op = "environment" =>
              (lastOp.outcome = "Ok" /\ lastOp.envs = {"default"})

\* the round trip was made and environment("default") was asked
C7_Witness ==
    /\ trip = "committed"
    /\ lastOp.op = "environment"
    /\ lastOp.detail = "default"
    /\ lastOp.outcome = "Ok"

\* C8 - No sandbox directory outlives its Sandboxed Project: the temporary
\* directory exists only while a Sandboxed Project exists, so it is gone
\* after commit_transaction returned or aborted, after the Project was
\* dropped, and after a failed enter_transaction.
C8_SandboxRemoved ==
    /\ sbExists => mode = "Sandboxed"
    /\ ~sbExists => sandbox = EmptyTree

\* commit_transaction aborted after it had applied part of the Index
C8_Witness ==
    /\ lastOp.op = "commit_transaction"
    /\ lastOp.outcome = "panic"
    /\ ~sbExists
    /\ mode = "Gone"

\* C9 - No operation on a ReadOnly Project (init_flox_package,
\* cleanup_flox, environment, environments) changes the original working
\* tree or its staging area.
C9_ReadOnlyNeverMutates ==
    [][ (mode = "ReadOnly" /\
         lastOp'.op \in {"init_flox_package", "cleanup_flox",
                         "environment", "environments"}) =>
            (orig' = orig /\ staged' = staged)
      ]_vars

\* C10 - The root of every ReadOnly Project that exists contains
\* flake.nix, in particular the one commit_transaction returns.
C10_ProjectRootHasManifest ==
    mode = "ReadOnly" => Exists(orig, FLAKE)

\* C11 - Every failure of a step of enter_transaction or
\* commit_transaction comes back to the caller as an Err value of the
\* operation's error type: neither operation ends in any other way than
\* with Ok or with that Err.
C11_FailuresAreTypedErrors ==
    (lastOp.op \in {"enter_transaction", "commit_transaction"}
        /\ lastOp.outcome # "Ok") =>
        lastOp.outcome = "Err"

\* the steps of the log that were made on the path p, by name and in order
StepsOn(log, p) ==
    LET on == SelectSeq(log, LAMBDA e : e.path = p)
    IN  [i \in 1..Len(on) |-> on[i].step]

\* the steps one entry with the action a is made of
EntrySteps(a) ==
    CASE a = ADD -> <<"create_dir_all", "rename", "add">>
      [] a = DELETE -> <<"rm">>
      [] OTHER -> <<>>

Range(sq) == {sq[i] : i \in 1..Len(sq)}

IsPrefix(a, b) == Len(a) <= Len(b) /\ a = SubSeq(b, 1, Len(a))

\* C12 - The Index holds one action per path: an insertion sets the
\* action of its path to the inserted one, replacing what the path had, and
\* leaves every other path alone; commit_transaction applies to each path
\* the steps of exactly the one action the Index holds for it (all of them
\* when it returns Ok, a prefix for the entry it stopped in), and no step to
\* a path without an entry.
C12_OneActionPerPath ==
    [][ /\ (lastOp'.op \in {"index_insert", "create_default_env"}
                /\ lastOp'.outcome = "Ok") =>
              /\ index'[lastOp'.ins[1]] = lastOp'.ins[2]
              /\ \A q \in Paths \ {lastOp'.ins[1]} : index'[q] = index[q]
        /\ lastOp'.op = "commit_transaction" =>
              \A q \in Paths :
                /\ IsPrefix(StepsOn(lastOp'.log, q), EntrySteps(index[q]))
                /\ lastOp'.outcome = "Ok" =>
                      StepsOn(lastOp'.log, q) = EntrySteps(index[q])
      ]_vars

\* an insertion of Delete for a path that the Index held an Add for
C12_Witness ==
    /\ lastOp.op = "index_insert"
    /\ lastOp.ins[2] = DELETE
    /\ lastOp.ins[3] = ADD
    /\ index[lastOp.ins[1]] = DELETE

\* C13 - At every moment at most one Project value holds access to the
\* original repository, counting the Project the caller holds (ReadOnly or
\* Sandboxed) and the Projects embedded in returned Environments.
C13_SingleHolder == Cardinality(OriginalHolders) <= 1

\* C14 - environment(name) and environments() change neither the original
\* working tree nor its staging area; when they return they have left the
\* sandbox, its staging area, the Index and the Project they were called
\* on as they were; a ReadOnly Project outside a transaction can be
\* queried; and every Environment returned embeds a ReadOnly Project, also
\* when the query was made on a Sandboxed Project.
C14_QueriesArePureReads ==
    /\ [](mode = "ReadOnly" => (ENABLED environment /\ ENABLED environments))
    /\ [][ lastOp'.op \in {"environment", "environments"} =>
              /\ orig' = orig
              /\ staged' = staged
              /\ lastOp'.outcome # "panic" =>
                    /\ sandbox' = sandbox
                    /\ sbStaged' = sbStaged
                    /\ sbExists' = sbExists
                    /\ index' = index
                    /\ mode' = mode
              /\ lastOp'.envs # {} => lastOp'.envAccess = "ReadOnly"
          ]_vars

\* environments() on the Sandboxed Project of a transaction returned the
\* default environment
C14_Witness ==
    /\ lastOp.op = "environments"
    /\ lastOp.from = "Sandboxed"
    /\ mode = "Sandboxed"
    /\ lastOp.envs = {"default"}
    /\ lastOp.envAccess = "ReadOnly"

\* the state of commit_transaction on the Index ix, started on the
\* original tree o with staging area s and the sandbox tree sb, after its
\* first n entries when no step fails for an outside reason
AfterEntries(ix, o, s, sb, n) ==
    ApplyIndex(ix, SubSeq(IndexKeys(ix), 1, n), 1, CommitStart(o, s, sb), 0, "none")

\* the last n steps of a log
LastSteps(log, n) == SubSeq(log, Len(log) - n + 1, Len(log))

\* C15 - Every Add entry (path p) that commit_transaction applies
\* successfully goes through create-parent, rename, add in this order, and
\* right after it the parent directory of p exists in the original tree,
\* the original holds at p what the sandbox held at p, the sandbox no
\* longer holds p, and the file p is staged in the original repository;
\* when commit_transaction is over, the original still holds at p what the
\* sandbox held and p is still staged.
C15_AddEntry ==
    [][ lastOp'.op = "commit_transaction" =>
          \A i \in 1..Len(IndexKeys(index)) :
            LET p == IndexKeys(index)[i]
                b == AfterEntries(index, orig, staged, sandbox, i - 1)
                a == AfterEntries(index, orig, staged, sandbox, i)
            IN  /\ (index[p] = ADD /\ a.outcome = "Ok") =>
                      /\ IsDir(a.orig, Parent(p))
                      /\ a.orig[p] = b.sb[p]
                      /\ b.sb[p] # NONE
                      /\ a.sb[p] = NONE
                      /\ IsFile(a.orig, p) => p \in a.staged
                      /\ Len(a.log) = Len(b.log) + 3
                      /\ LastSteps(a.log, 3) =
                            <<Step(p, "create_dir_all", FALSE),
                              Step(p, "rename", FALSE), Step(p, "add", FALSE)>>
                /\ (index[p] = ADD /\ Step(p, "add", FALSE) \in Range(lastOp'.log)) =>
                      /\ IsDir(orig', Parent(p))
                      /\ orig'[p] = sandbox[p]
                      /\ IsFile(sandbox, p) => p \in staged'
      ]_vars

\* a file written in the sandbox and recorded as Add was committed into an
\* original tree that had no directory for it
C15_Witness ==
    /\ lastOp.op = "commit_transaction"
    /\ lastOp.outcome = "Ok"
    /\ lastOp.log = <<Step(OLD_PACKAGE, "create_dir_all", FALSE),
                      Step(OLD_PACKAGE, "rename", FALSE),
                      Step(OLD_PACKAGE, "add", FALSE)>>
    /\ orig[FLAKE] = TEMPLATE_CONTENT
    /\ orig[PKGS] = DIR
    /\ orig[OLD_PACKAGE] = USER_CONTENT
    /\ OLD_PACKAGE \in staged

\* C16 - Every Delete entry (path p) that commit_transaction applies is one
\* remove on the original repository whose recursive flag is set exactly
\* when p is a directory of the original tree at that moment; right after
\* it neither p nor anything below p is in the original tree or staged,
\* and no path beside p or above it has changed; the sandbox is not changed
\* by it, and whether the sandbox holds p makes no difference to it.
C16_DeleteEntry ==
    [][ lastOp'.op = "commit_transaction" =>
          \A i \in 1..Len(IndexKeys(index)) :
            LET p == IndexKeys(index)[i]
                b == AfterEntries(index, orig, staged, sandbox, i - 1)
                a == AfterEntries(index, orig, staged, sandbox, i)
            IN  (index[p] = DELETE /\ a.outcome = "Ok") =>
                      /\ \A q \in SelfAndDescendants(p) :
                            a.orig[q] = NONE /\ q \notin a.staged
                      /\ \A q \in Paths \ (SelfAndDescendants(p) \cup Ancestors(p)) :
                            a.orig[q] = b.orig[q]
                      /\ a.log = b.log \o <<Step(p, "rm", IsDir(b.orig, p))>>
                      /\ a.sb = b.sb
                      /\ \A sb \in {EmptyTree, orig} :
                            ApplyDelete([b EXCEPT !.sb = sb], p, "none").orig = a.orig
      ]_vars

\* a directory that the sandbox still holds was removed from the original
\* with the recursive flag, and a file without it
C16_Witness ==
    /\ lastOp.op = "commit_transaction"
    /\ lastOp.outcome = "Ok"
    /\ lastOp.log = <<Step(FLAKE, "rm", FALSE), Step(PKGS, "rm", TRUE)>>
    /\ orig = EmptyTree
    /\ staged = {}
    /\ lastOp.lost = {}

\* the steps commit_transaction makes on the Index ix when none fails: the
\* steps of each entry, entry after entry in key order
ExpectedSteps(ix) ==
    LET upTo[i \in 0..Len(PathOrder)] ==
            IF i = 0 THEN <<>>
            ELSE upTo[i - 1] \o
                 [k \in 1..Len(EntrySteps(ix[PathOrder[i]])) |->
                     <<PathOrder[i], EntrySteps(ix[PathOrder[i]])[k]>>]
    IN  upTo[Len(PathOrder)]

\* the path and the name of each step of a log
LogSteps(log) == [i \in 1..Len(log) |-> <<log[i].path, log[i].step>>]

\* C17 - commit_transaction applies the entries of the Index one at a time
\* in the Index's iteration order, the order of the paths as keys: every
\* step of an entry is made before the first step of the next entry, and
\* the steps made are a function of the Index alone (all of them when the
\* call returns Ok, the first of them when it stops at a failing step).
C17_IndexOrder ==
    [][ lastOp'.op = "commit_transaction" =>
          /\ IsPrefix(LogSteps(lastOp'.log), ExpectedSteps(index))
          /\ lastOp'.outcome = "Ok" =>
                LogSteps(lastOp'.log) = ExpectedSteps(index)
      ]_vars

\* a Delete of the manifest and an Add of a package file were applied, the
\* manifest first
C17_Witness ==
    /\ lastOp.op = "commit_transaction"
    /\ lastOp.outcome = "Ok"
    /\ LogSteps(lastOp.log) =
          <<<<FLAKE, "rm">>, <<OLD_PACKAGE, "create_dir_all">>,
            <<OLD_PACKAGE, "rename">>, <<OLD_PACKAGE, "add">>>>

\* C18 as stated - commit_transaction changes the original working tree
\* only at paths that are keys of the Index.
C18_OnlyIndexKeysChange ==
    [][ lastOp'.op = "commit_transaction" =>
          \A p \in Paths : index[p] = NO_ENTRY => orig'[p] = orig[p]
      ]_vars

\* the paths an Index covers: its keys and what lies below them
Covered(ix) == UNION {SelfAndDescendants(k) : k \in {q \in Paths : ix[q] # NO_ENTRY}}

\* the directories above the keys of an Index
KeyParents(ix) == UNION {Ancestors(k) : k \in {q \in Paths : ix[q] # NO_ENTRY}}

\* C18 as amended - commit_transaction changes the original working tree
\* only at the keys of the Index, at paths below a key, and at the
\* directories above a key (an Add creates the missing ones), where a
\* directory may appear or go but no file changes; what the sandbox holds
\* at any other path leaves the original unchanged at that path and is
\* lost with the sandbox.
C18_OnlyCoveredPathsChange ==
    [][ lastOp'.op = "commit_transaction" =>
          /\ \A p \in Paths \ Covered(index) :
                \/ orig'[p] = orig[p]
                \/ /\ p \in KeyParents(index)
                   /\ orig[p] \in {NONE, DIR}
                   /\ orig'[p] \in {NONE, DIR}
          /\ \A p \in lastOp'.lost \ (Covered(index) \cup KeyParents(index)) :
                orig'[p] = orig[p]
          /\ ~sbExists' /\ sandbox' = EmptyTree
      ]_vars

\* a commit that applied an entry while the sandbox held a changed manifest
\* that no entry recorded: the original manifest is as it was
C18_Witness ==
    /\ lastOp.op = "commit_transaction"
    /\ lastOp.outcome = "Ok"
    /\ lastOp.lost = {FLAKE}
    /\ Len(lastOp.log) > 0
    /\ orig[FLAKE] \in {OLD_CONTENT, TEMPLATE_CONTENT}
    /\ ~sbExists

\* what one completed step of commit_transaction does to the original tree,
\* its staging area and the sandbox
ReplayStep(st, e) ==
    CASE e.step = "create_dir_all" ->
            [st EXCEPT !.orig = CreateDirAll(st.orig, Parent(e.path))]
      [] e.step = "rename" ->
            [st EXCEPT !.orig = RenamedInto(st.sb, st.orig, e.path),
                       !.sb = RenamedFrom(st.sb, e.path)]
      [] e.step = "add" ->
            [st EXCEPT !.staged = GitAdd(st.orig, st.staged, e.path)]
      [] OTHER ->
            [st EXCEPT !.orig = GitRmTree(st.orig, e.path),
                       !.staged = GitRmStaged(st.staged, e.path)]

\* the effect of the steps of a log from the i-th on
RECURSIVE Replay(_, _, _)
Replay(log, i, st) ==
    IF i > Len(log) THEN st ELSE Replay(log, i + 1, ReplayStep(st, log[i]))

\* C19 - When a step of entry k fails during commit_transaction, the steps
\* completed before it are those of the entries before k and the first
\* steps of k, no step of a later entry is made, the original tree and its
\* staging area are left exactly as the completed steps made them (nothing
\* is rolled back), no ReadOnly Project is returned, and the sandbox is
\* gone.
C19_PartialCommit ==
    [][ (lastOp'.op = "commit_transaction" /\ lastOp'.outcome # "Ok") =>
          LET done == Replay(lastOp'.log, 1,
                             [orig |-> orig, staged |-> staged, sb |-> sandbox])
          IN  /\ IsPrefix(LogSteps(lastOp'.log), ExpectedSteps(index))
              /\ Len(lastOp'.log) < Len(ExpectedSteps(index))
              /\ orig' = done.orig
              /\ staged' = done.staged
              /\ mode' = "Gone"
              /\ ~sbExists'
      ]_vars

\* a Delete of the manifest was applied, then the Add of a file that was
\* never written failed at its rename: the manifest stays removed and the
\* parent directory made for the Add stays
C19_Witness ==
    /\ lastOp.op = "commit_transaction"
    /\ lastOp.outcome = "panic"
    /\ lastOp.detail = "rename"
    /\ lastOp.log = <<Step(FLAKE, "rm", FALSE),
                      Step(OLD_PACKAGE, "create_dir_all", FALSE)>>
    /\ orig[FLAKE] = NONE
    /\ orig[PKGS] = DIR
    /\ orig[OLD_PACKAGE] = NONE
    /\ mode = "Gone"

\* C20 - A successful enter_transaction returns an empty Index and a
\* Sandboxed Project whose workdir is a newly created directory other than
\* the original root, holding every directory and file of the original
\* tree at the same relative path with the same content and the original's
\* version-control state (what is staged), and with the subdir of the
\* ReadOnly Project it came from; the original is unchanged.
C20_EnterCopiesTree ==
    [][ (lastOp'.op = "enter_transaction" /\ lastOp'.outcome = "Ok") =>
          /\ mode = "ReadOnly" /\ mode' = "Sandboxed"
          /\ index' = EmptyIndex
          /\ \A p \in Paths : sandbox'[p] = orig[p]
          /\ sbStaged' = staged
          /\ subdir' = subdir
          /\ ~sbExists /\ sbExists'
          /\ Workdir(mode') # Workdir(mode)
          /\ orig' = orig /\ staged' = staged
      ]_vars

\* a transaction was entered on a tree with a manifest, a directory and a
\* file below it, by a caller that had operated on the project before
C20_Witness ==
    /\ lastOp.op = "enter_transaction"
    /\ lastOp.outcome = "Ok"
    /\ mode = "Sandboxed"
    /\ orig[FLAKE] # NONE /\ orig[PKGS] = DIR /\ IsFile(orig, OLD_PACKAGE)
    /\ sandbox = orig
    /\ index = EmptyIndex
    /\ ops > 0

\* C21 - commit_transaction makes no commit and pushes nothing: the
\* repository's history is the same after it as before it, and during the
\* whole transaction the same as at enter_transaction, whatever message is
\* passed; when it returns Ok, every Add key holds in the original tree what
\* the sandbox held and is staged if it is a file, and no Delete key is
\* staged or a file of the original tree.
C21_NoCommitNoPush ==
    [][ /\ lastOp'.op = "commit_transaction" =>
              /\ history' = history
              /\ history = entered.history
              /\ \A m \in Messages : CommitHistory(history, m) = history'
              /\ lastOp'.outcome = "Ok" =>
                    \A p \in Paths :
                      /\ index[p] = ADD =>
                            /\ orig'[p] = sandbox[p]
                            /\ IsFile(sandbox, p) => p \in staged'
                      /\ index[p] = DELETE =>
                            (p \notin staged' /\ ~IsFile(orig', p))
        /\ (mode = "Sandboxed" /\ mode' = "Sandboxed") => history' = entered.history
      ]_vars

\* a commit_transaction with a message other than the tests' applied an Add
\* to a repository that has one commit, and left it with that one commit
C21_Witness ==
    /\ lastOp.op = "commit_transaction"
    /\ lastOp.outcome = "Ok"
    /\ lastOp.message = "update"
    /\ Step(FLAKE, "add", FALSE) \in Range(lastOp.log)
    /\ orig[FLAKE] = USER_CONTENT
    /\ FLAKE \in staged
    /\ history = [commits |-> <<"initial">>, pushed |-> 0]

\* the step is a commit_transaction of the first Project, of the second
ProjectCommits == actor' = "project" /\ lastOp'.op = "commit_transaction"
OtherCommits == actor' = "other" /\ other'.last = "commit"

\* a sandbox is the copy taken at its own enter_transaction and is changed
\* by no step of the other Project, a commit included
SandboxIsSnapshot ==
    /\ actor' = "other" => UNCHANGED <<sandbox, sbStaged, sbExists, index, mode>>
    /\ actor' = "project" => other' = other
    /\ (actor' = "project" /\ lastOp'.op = "enter_transaction"
          /\ lastOp'.outcome = "Ok") => sandbox' = orig
    /\ (actor' = "other" /\ other'.last = "enter" /\ other'.outcome = "Ok") =>
          other'.sandbox = orig

\* the original tree and its staged paths change at a commit_transaction
\* only, and a commit that returns Ok leaves the original as its own Index
\* and its own sandbox make it from the original of that moment
WritesReachAtOwnCommit ==
    /\ (orig' # orig \/ staged' # staged) => (ProjectCommits \/ OtherCommits)
    /\ (ProjectCommits /\ lastOp'.outcome = "Ok") =>
          LET a == AfterEntries(index, orig, staged, sandbox, Len(IndexKeys(index)))
          IN  orig' = a.orig /\ staged' = a.staged
    /\ (OtherCommits /\ other'.outcome = "Ok") =>
          LET a == AfterEntries(other.index, orig, staged, other.sandbox,
                                Len(IndexKeys(other.index)))
          IN  orig' = a.orig /\ staged' = a.staged

\* every Add entry of the Index ix whose path the sandbox sb holds, and
\* whose parent directory can be created in the original, replaces what the
\* original o holds at the path
AddsReplace(ix, o, s, sb) ==
    \A i \in 1..Len(IndexKeys(ix)) :
        LET p == IndexKeys(ix)[i]
            b == AfterEntries(ix, o, s, sb, i - 1)
            a == AfterEntries(ix, o, s, sb, i)
        IN  (/\ ix[p] = ADD
             /\ b.outcome = "Ok"
             /\ b.sb[p] # NONE
             /\ CanCreateDirAll(b.orig, Parent(p))) =>
                  (a.outcome = "Ok" /\ a.orig[p] = b.sb[p])

\* every Add entry of the Index ix is applied exactly when the rename onto
\* the original can be made, and then the original holds at the path, and
\* below it, what the sandbox held
AddsRename(ix, o, s, sb) ==
    \A i \in 1..Len(IndexKeys(ix)) :
        LET p == IndexKeys(ix)[i]
            b == AfterEntries(ix, o, s, sb, i - 1)
            a == AfterEntries(ix, o, s, sb, i)
        IN  (/\ ix[p] = ADD
             /\ b.outcome = "Ok"
             /\ CanCreateDirAll(b.orig, Parent(p))) =>
                  /\ a.outcome = "Ok" <=>
                        CanRename(b.sb, CreateDirAll(b.orig, Parent(p)), p)
                  /\ a.outcome = "Ok" =>
                        \A q \in SelfAndDescendants(p) : a.orig[q] = b.sb[q]
                  /\ a.outcome # "Ok" => a.orig[p] = b.orig[p]

\* C22 - With two transactions entered on the same original
\* tree and interleaved in any order, a sandbox never shows changes
\* committed to the original after its own enter_transaction, each
\* transaction's writes reach the original only at its own
\* commit_transaction, and an Add for path p replaces whatever the original
\* tree holds at p, so that for a path both transactions Add the content
\* after both commits is that of the transaction that committed last.
C22_AddReplacesWhatever ==
    [][ /\ SandboxIsSnapshot
        /\ WritesReachAtOwnCommit
        /\ ProjectCommits => AddsReplace(index, orig, staged, sandbox)
        /\ OtherCommits => AddsReplace(other.index, orig, staged, other.sandbox)
      ]_vars

\* What holds of two interleaved transactions: a sandbox never shows changes
\* committed to the original after its own enter_transaction, and each
\* transaction's writes reach the original only at its own
\* commit_transaction.  An Add for path p is a rename onto the original: it
\* replaces a file by a file, fills a gap and replaces an empty directory by
\* a directory, and ends the commit in a panic where the original holds a
\* directory in place of the file, a file in place of the directory, or a
\* directory that is not empty.  For a path both transactions Add, after a
\* commit_transaction that returned Ok the content is that of the
\* transaction that committed last.
TwoTransactions_AddRenamesOntoOriginal ==
    [][ /\ SandboxIsSnapshot
        /\ WritesReachAtOwnCommit
        /\ ProjectCommits =>
              /\ AddsRename(index, orig, staged, sandbox)
              /\ lastOp'.outcome = "Ok" =>
                    \A p \in Paths : index[p] = ADD => orig'[p] = sandbox[p]
        /\ OtherCommits =>
              /\ AddsRename(other.index, orig, staged, other.sandbox)
              /\ other'.outcome = "Ok" =>
                    \A p \in Paths :
                        other.index[p] = ADD => orig'[p] = other.sandbox[p]
      ]_vars

\* both Projects were in a transaction at the same time and both recorded
\* an Add of the environment file; the first committed, then the second,
\* and the original holds the second's content
TwoTransactions_LastCommitWins ==
    /\ actor = "other"
    /\ other.last = "commit"
    /\ other.outcome = "Ok"
    /\ other.overlap
    /\ Step(FLOX, "rename", FALSE) \in Range(other.log)
    /\ lastOp.op = "commit_transaction"
    /\ lastOp.outcome = "Ok"
    /\ Step(FLOX, "rename", FALSE) \in Range(lastOp.log)
    /\ orig[FLOX] = OTHER_CONTENT
    /\ FLOX \in staged

====
